---------------------------- MODULE Spec2Model ----------------------------
(***************************************************************************)
(* A model of LATCH.h: the keypoint border filter, the per-triplet patch   *)
(* comparison of _LATCH, the packing of 512 bits into 64 bytes, and the    *)
(* fork-join dispatch of LATCH<multithread>.                               *)
(*                                                                         *)
(* Floats are modelled exactly on a quarter-pixel grid: every coordinate   *)
(* and every scaled/rotated offset of the model is an integer number of    *)
(* quarter pixels (Q = 4 units per pixel), a range in which binary32       *)
(* arithmetic is exact.  Angles are whole quarter turns, for which the     *)
(* rotation is taken with cos/sin in {-1, 0, 1}.                           *)
(***************************************************************************)
EXTENDS Integers, Naturals, Sequences, FiniteSets, TLC

VARIABLES
  width, height,     \* declared image size (LATCH parameters)
  image,             \* the pixel content, a record naming a synthetic picture
  junk,              \* the byte held by memory the caller never initialised
  input,             \* the keypoint list as passed by the caller
  multithread,       \* the template parameter of LATCH
  hardware,          \* value of std::thread::hardware_concurrency()
  keypoints,         \* std::vector<KeyPoint>& keypoints (its live elements)
  pc,                \* position of the thread that called LATCH
  sz, hw_concur, thread_stride, i, start, j,   \* locals of LATCH
  calls,             \* one record per _LATCH invocation, in launch order;
                     \* fut[k] is the future of the async call calls[k+1]
  descriptors,       \* the output array, one slot per keypoint index
  pixelReads,        \* TRUE once any _LATCH invocation loaded an image byte
  ub,                \* TRUE once an access left the vector or the array
  fragment, bit,     \* inner loop variables of _LATCH (kernel model)
  accum,             \* the 32-bit sum of the most recently evaluated triplet
  results,           \* the sign bits of the triplets evaluated so far for the
                     \* keypoint in hand, in table order
  outside            \* window pixels read so far that lie outside the image

vars == << width, height, image, junk, input, multithread, hardware,
           keypoints, pc, sz, hw_concur, thread_stride, i, start, j, calls,
           descriptors, pixelReads, ub, fragment, bit, accum, results,
           outside >>

inputVars    == << width, height, image, junk, input, multithread, hardware >>
dispatchVars == << sz, hw_concur, thread_stride, i, start, j >>
kernelVars   == << fragment, bit, accum, results, outside >>

---------------------------------------------------------------------------
(* Fixed-point and machine arithmetic                                      *)

Q == 4

Min(a, b) == IF a < b THEN a ELSE b
Max(a, b) == IF a > b THEN a ELSE b

\* _mm_cvtps_epi32 under the default rounding mode: nearest, ties to even.
\* The argument is in quarter pixels, the result in whole pixels.
Cvt(q) ==
  LET fl == q \div Q
      r  == q % Q
  IN  IF r * 2 < Q THEN fl
      ELSE IF r * 2 > Q THEN fl + 1
      ELSE IF fl % 2 = 0 THEN fl ELSE fl + 1

\* the signed value of the low 16 bits
Wrap16(x) == ((x + 32768) % 65536) - 32768
\* a lane that keeps only 16 bits
Wrap32Low16(x) == Wrap16(x)
\* Two's-complement wrap of a 32-bit lane (_mm_add_epi32, _mm_sub_epi32,
\* _mm_mullo_epi32 keep the low 32 bits).
\* The value is split in a high and a low half of 16 bits each; the high half
\* is reduced to 16 signed bits and the low half is kept.
Wrap32(x) == (Wrap16(x \div 65536) * 65536) + (x % 65536)

\* The value of (v & 0x80000000) >> 31 for a 32-bit value v.
SignBit(v) == IF v < 0 THEN 1 ELSE 0

RECURSIVE Pow2(_)
Pow2(n) == IF n = 0 THEN 1 ELSE 2 * Pow2(n - 1)

\* bit number b (0 = least significant) of the byte v
BitOf(v, b) == (v \div Pow2(b)) % 2

---------------------------------------------------------------------------
(* The triplet table (constexpr float triplets[3073])                      *)

triplets ==
  << -5, -16, -9, 1, 16, -21,
     -7, -10, -3, 16, -14, 9,
     11, 7, 3, 6, 15, -11,
     -22, -12, -22, 2, 12, 21,
     17, 2, 14, -10, 10, -18,
     22, -2, 23, -14, -20, 5,
     4, 24, 4, 16, -11, -21,
     13, 19, 23, -6, 19, -4,
     22, 1, -10, 7, -8, 6,
     -5, 19, -6, 18, 11, -16,
     12, 24, 20, -9, 20, -20,
     -3, 5, 10, -14, -21, 19,
     -3, -17, -5, 9, -1, -19,
     7, 22, 13, -2, -23, 20,
     19, -1, 15, 12, -19, -9,
     -19, -2, -22, 2, -9, 24,
     -2, -11, -3, -21, -18, 7,
     23, 4, 17, 8, 7, -19,
     16, 10, 20, 18, -23, 4,
     -6, -1, 6, 22, -11, -14,
     -24, 15, -23, -15, -14, -11,
     24, 18, 14, -13, -14, -19,
     -17, -11, -21, 10, -12, -17,
     19, 3, -2, -4, 8, 19,
     -18, -8, -18, -3, -15, 5,
     -6, 1, -6, -13, 16, 23,
     -22, -4, -15, -8, -5, 20,
     9, -6, 10, 13, -23, 15,
     20, 11, 9, 12, -24, 22,
     -19, -1, -20, -4, 5, 2,
     -24, 15, -19, 4, -16, -5,
     -23, -11, -16, 10, 5, 19,
     -3, -22, -7, 5, 23, -22,
     -15, -9, -21, 2, 21, 20,
     -18, 16, -12, 11, -10, 4,
     2, 14, 6, -7, -13, 20,
     3, 23, 5, 15, -23, -9,
     1, -1, -3, 8, -4, 7,
     -22, -1, 16, 16, 19, -12,
     14, 9, 19, -12, 13, 12,
     21, -22, 15, 2, -17, 3,
     0, 11, 8, 5, -22, 18,
     -15, 13, -18, 9, 3, -17,
     -12, 8, -21, 10, 5, -18,
     19, 0, -12, 17, 18, -7,
     -14, 1, -12, -20, -7, -2,
     24, 3, -16, 15, -22, 7,
     -17, 24, -24, 13, -14, -24,
     -7, -4, -1, -23, 10, 20,
     -8, -1, -5, -13, 20, -22,
     13, 16, 0, -22, 16, -14,
     -10, 0, -9, 12, -9, -16,
     20, -2, 19, 15, -19, -15,
     -19, 22, -14, 19, 23, -2,
     -24, 10, -8, 16, -3, -1,
     -22, 18, -23, -15, 23, 21,
     9, 9, 21, 10, -23, -24,
     -17, 12, -12, -19, -23, -8,
     19, 0, -18, 17, -16, -19,
     -19, -7, -14, 21, 20, 3,
     20, 8, 17, -2, 0, -10,
     -15, 6, -21, 24, 2, -22,
     -18, 8, -24, 12, 19, -14,
     16, -13, 24, -1, -16, -18,
     23, 4, 20, -1, -10, 22,
     22, 2, 16, -14, -22, 11,
     -14, 24, -9, -19, -16, -6,
     11, 0, -20, -5, 24, -12,
     17, -9, 18, 16, 1, -15,
     15, -24, 24, -10, 16, 11,
     5, -3, 4, 3, -16, -2,
     9, -15, 7, 19, -18, -19,
     11, -5, 14, 6, 22, -10,
     -8, 17, -19, -3, 24, 17,
     13, 24, 9, 16, -20, -4,
     7, 16, 8, -6, 11, 1,
     3, 18, 20, 23, 15, -24,
     22, 2, -12, 15, 18, -10,
     -15, 11, -13, 13, 9, 9,
     -10, 17, -13, -9, 13, -13,
     22, -11, 20, 15, 7, -9,
     18, -11, 17, 0, 16, 11,
     22, -19, 24, -18, -3, -15,
     22, -5, 19, 20, 16, -23,
     21, 0, -17, 14, -8, 2,
     9, 2, 7, 0, 3, 12,
     7, -12, 13, 18, 8, -24,
     -5, -15, -22, -11, -10, 9,
     19, 20, 24, 24, 6, -11,
     -10, 2, -17, 6, -2, -21,
     19, 21, 21, -17, 21, -13,
     -11, -20, -9, 3, -5, -8,
     -3, -7, -1, -20, 23, -9,
     -3, 22, -1, 21, -12, 3,
     -19, 2, -24, -4, -3, 17,
     -16, 2, -19, 10, 1, 20,
     -9, -20, -17, 21, -17, 22,
     -18, -9, -12, 7, 19, -5,
     22, 8, 11, 6, -7, 22,
     -24, 5, -24, 10, -15, -20,
     10, -22, 9, 20, -4, -20,
     -24, 0, -23, 6, -13, -15,
     22, -3, 19, -20, 24, 5,
     10, -1, 8, -23, -9, -5,
     -9, 23, -22, -6, 0, 13,
     -9, 23, -17, -7, -13, -20,
     20, -21, 22, 7, 15, -5,
     24, -24, 12, 24, 22, -12,
     16, -18, 9, -13, 11, -6,
     -10, 2, 18, -9, 15, 18,
     -18, 1, -24, 3, 24, 20,
     -23, -22, -17, 6, -12, 7,
     -19, -18, -2, -18, 22, 13,
     -22, 4, -22, 24, 8, 2,
     7, 10, 20, -12, 19, 21,
     -18, 3, -16, -7, 8, 5,
     -20, 4, -17, -14, -9, -8,
     -7, -20, -20, -6, 18, -3,
     0, 4, 18, 4, -8, -8,
     -15, 1, -17, -18, -22, 10,
     8, 21, 24, 13, 17, -3,
     14, 6, 17, 10, -24, -10,
     -22, 12, -18, 8, -8, 23,
     -13, 21, -15, -8, 18, 11,
     20, 7, 5, 17, 7, -24,
     -7, 1, 9, -12, 14, 17,
     16, -24, 24, 11, -2, 21,
     10, -15, 21, 9, 15, 16,
     -10, 14, -22, 3, -11, 8,
     22, -22, 14, -13, 4, 3,
     -1, 23, -2, 21, -14, -17,
     16, -7, 19, -7, -23, 6,
     21, -15, 6, -22, 6, -4,
     11, -1, -10, 7, -21, -4,
     -10, -2, -13, -23, 23, 5,
     -21, 18, -8, -24, 11, 5,
     -18, 23, -21, -24, -16, 16,
     -8, 19, -23, 6, -13, 23,
     -24, -16, -1, -23, 13, -11,
     -23, 12, -24, -10, 1, 2,
     -14, 2, -20, -20, -11, 24,
     -1, 20, -6, -4, -22, -19,
     12, 13, 15, 2, -16, 1,
     11, -24, 24, 13, 10, 21,
     -10, 8, -13, -12, 10, 24,
     23, -13, 16, 10, -14, 10,
     0, -21, 0, 22, 20, 18,
     24, -13, 18, 7, 7, 19,
     -10, -24, -13, -24, -20, -5,
     19, 0, 21, -4, 21, 16,
     0, -13, -2, -15, 24, 9,
     -12, -10, -6, 19, 6, -16,
     -10, -4, -14, 4, -22, -8,
     24, -18, 20, -7, 24, -1,
     18, -8, 23, 7, 3, -11,
     -20, -11, -5, -6, 17, -19,
     12, 1, 12, 0, -11, -16,
     22, -2, -24, -1, -3, 22,
     17, -7, 17, 17, 17, -12,
     -22, -17, -6, -6, 14, 11,
     -11, -4, -2, -13, -9, -18,
     -24, 12, -16, 16, -5, 13,
     -20, 15, -14, 23, -10, -16,
     21, -18, 12, 13, 0, -12,
     -18, -20, -18, 14, -22, 12,
     -16, 3, -17, 21, -3, -15,
     12, 15, 5, 15, -19, 4,
     15, -16, 17, -8, 20, 23,
     -21, 7, -7, 19, -2, 1,
     -22, 21, -21, 13, 19, -10,
     9, 21, 6, 0, -23, -24,
     -24, 4, -24, 13, 16, -13,
     -8, 15, -11, -18, 23, 23,
     18, 2, 15, 10, 23, 6,
     -14, 22, -21, -14, 9, 17,
     3, -24, -2, -12, 0, -3,
     18, -9, 19, 18, 7, 17,
     20, -20, 11, -11, 0, 4,
     5, 11, 18, -7, -22, -5,
     -15, 24, -17, -23, 22, 18,
     -23, -15, -7, -5, -14, 11,
     -3, 3, -4, -7, 17, -13,
     19, -2, 17, -19, 24, 1,
     2, 8, 11, -21, 20, -12,
     22, -9, 8, 11, -14, -4,
     -19, 20, -22, 2, -14, 23,
     9, -24, 9, -17, -22, 17,
     6, -1, -4, -21, 0, 18,
     8, -9, 12, -13, -23, 13,
     7, -13, 16, -2, 5, -5,
     -19, 9, -10, -23, 23, 9,
     1, 24, 4, -17, -24, 3,
     10, -2, 12, -5, -1, 15,
     22, 6, -6, 11, 20, -9,
     24, 8, -7, -22, 23, -10,
     3, 5, 2, 8, -6, 14,
     13, -10, 7, -12, 11, 11,
     16, -7, 21, -13, -7, -12,
     9, 14, 5, -8, 18, -9,
     12, -2, 8, -22, 13, 21,
     3, -3, -10, -1, -2, 19,
     -13, 7, -21, -8, -5, -17,
     16, -4, 18, -14, -22, 17,
     13, 23, 12, 2, -2, 5,
     -12, -4, -14, 1, 9, -2,
     -17, 6, -12, 22, -9, -13,
     -9, 22, -24, 2, -1, -10,
     -14, -23, -13, 14, 6, -3,
     -23, 7, -23, -12, 12, 16,
     -6, 4, 3, 20, 22, -20,
     5, 14, 3, -15, 12, -13,
     19, -11, 24, -22, -12, -20,
     9, -12, 16, 17, 21, 24,
     -20, -10, -14, -9, 16, -21,
     -7, -23, -4, -20, 10, -8,
     18, -14, 20, 6, 24, 10,
     -2, 4, 10, -21, -16, -2,
     -18, -11, -15, -12, 14, -21,
     14, -15, 18, -7, -17, -2,
     12, -1, 20, 18, 0, 7,
     -13, -12, -17, 14, 23, 18,
     21, -5, 24, -7, -15, -6,
     1, 16, -5, 1, 9, 18,
     22, -4, 22, 3, 18, 8,
     -10, 6, -16, 9, 4, -24,
     5, -4, -18, -18, -12, -24,
     -16, -6, -19, -19, 18, 23,
     19, -23, 23, -4, -10, -13,
     13, -6, 19, 8, 19, -6,
     8, -17, 12, -17, 0, 22,
     8, 7, 22, 22, -22, -22,
     22, -19, 19, -23, -17, 16,
     0, 21, 13, 12, 21, -22,
     -19, -15, -12, 3, -16, 1,
     -1, 22, -1, -24, 19, 13,
     -9, 14, -6, 7, 24, -1,
     -18, -11, -18, -3, -22, -5,
     -13, 1, 15, 9, 18, 7,
     -5, 10, 24, 12, -24, 22,
     -7, 0, -1, -15, 3, 24,
     21, -23, 19, -16, -5, 8,
     18, -12, 14, 18, -16, -5,
     -20, 16, -20, 19, -2, -19,
     -20, 22, -23, -13, 21, -3,
     19, -16, 23, -19, 24, 7,
     -19, -1, 18, 5, 20, 15,
     13, 22, 24, -11, 3, -14,
     -19, 14, -23, -9, 12, 17,
     -6, 14, -9, -1, -22, -9,
     19, -1, -21, -18, 23, -10,
     22, 17, 14, 1, -12, -23,
     7, 0, -3, -8, 8, 21,
     24, -2, 24, 2, -6, -12,
     8, 2, 9, 14, -3, 6,
     -10, -3, -11, -24, 18, -5,
     -12, -20, -7, 12, -5, -6,
     -17, -2, -17, -21, -15, -15,
     5, 21, 9, -15, -23, -12,
     -10, 10, -8, 10, 4, 7,
     23, -3, 9, 4, 11, 4,
     -1, -9, -21, -21, 22, -4,
     -12, 19, -15, -3, -24, 0,
     -24, -8, -19, 9, 17, -7,
     20, -16, 21, -24, -11, 19,
     11, -21, 19, -14, 23, -21,
     23, -9, 20, 7, 17, -6,
     -18, -5, 5, 21, -17, 11,
     -3, -15, -21, -16, -13, 11,
     14, -2, -20, 3, 2, -17,
     -16, 19, -12, -21, -3, 15,
     21, 19, 5, 20, -6, -1,
     21, 9, 1, 12, 23, -9,
     9, -6, 22, 7, 6, 0,
     4, 14, 23, -21, -4, 18,
     -6, -12, -23, -24, -13, 9,
     14, 22, 6, 21, -19, -9,
     -2, -8, -5, 22, -16, 23,
     -3, 23, -3, 19, 10, -18,
     -22, 7, -19, 21, 12, -12,
     -9, 23, -16, -6, -24, 7,
     1, 6, 14, 21, 15, -3,
     4, -2, -11, 18, 10, 20,
     3, 23, 23, -20, -13, 23,
     11, 21, 20, -12, 19, -8,
     14, 14, 13, -4, 22, -14,
     14, 23, 10, -12, 7, 21,
     2, 4, 11, -20, -13, -11,
     14, 8, 16, -13, 24, -14,
     -9, 17, -13, -8, -3, 21,
     -17, 4, -17, 16, 0, 24,
     -22, -15, -1, 18, -24, 8,
     -16, -7, -14, -10, 22, 5,
     1, 11, -1, -24, -9, 10,
     7, -12, 14, 9, -4, 18,
     21, 15, 5, -3, -23, -5,
     16, 8, 18, 24, -11, 23,
     17, -1, 18, -12, 13, 19,
     -18, 10, -14, 12, -14, 24,
     -4, -5, -9, 20, 12, 20,
     16, -5, 15, -8, -20, -7,
     -24, 5, -16, 10, -11, -6,
     -21, 12, -24, -15, 14, -15,
     21, -1, 19, 6, -5, 19,
     24, 12, 3, 10, 12, -15,
     -22, 1, -17, -13, -4, 4,
     19, -8, 22, -12, 14, -23,
     11, -9, 16, -4, -10, 2,
     -24, -8, 5, 21, -21, 14,
     14, -21, 22, -11, -8, -22,
     -23, -1, 19, -5, -11, 13,
     13, 5, 4, -12, 18, -24,
     -13, 2, -14, 22, 9, 19,
     13, -15, 9, 22, 19, -17,
     -3, 4, -3, 5, -2, -14,
     11, 2, 4, -21, -15, 2,
     -17, -5, -16, -1, 15, -20,
     15, 0, 7, -7, -20, 0,
     -2, 23, -1, 12, -19, -10,
     -3, 13, 19, -18, 15, -23,
     -21, 5, -19, 10, 3, 18,
     -17, 9, -16, -12, 19, 24,
     -20, -1, -24, -24, -22, -9,
     12, -16, 18, -5, -19, -6,
     -12, 10, -8, -23, 8, -11,
     17, -8, 15, 21, -13, 11,
     11, 24, 11, 14, -23, 6,
     15, 7, 19, 22, -23, 14,
     -4, 21, -2, 18, 7, 5,
     23, 24, 10, 10, -24, 10,
     -14, -4, -21, 24, 3, 2,
     2, 24, 6, -6, 7, 24,
     14, -16, 18, -8, -15, 11,
     -21, -8, -20, 0, 14, 23,
     -23, 11, -24, 22, 7, 22,
     7, 24, 9, 19, 0, 23,
     14, -6, 20, -9, 7, -23,
     20, 9, 13, 1, 9, 21,
     -11, -1, 9, -11, 15, 23,
     8, -9, 23, 2, 10, 21,
     -19, 4, -19, -22, -2, 20,
     14, 20, 19, -23, 1, 23,
     12, -1, -15, 22, 13, -18,
     24, -5, 21, 11, 6, 12,
     11, -2, 12, 5, 15, 7,
     -16, 10, -15, -13, 10, 17,
     -18, -15, -19, -5, 3, 8,
     12, 12, 14, -9, 20, -12,
     -13, -23, -22, -18, -8, 13,
     15, -22, 16, -18, 18, 14,
     7, 23, 20, -9, 2, -16,
     -17, -7, -24, -23, 9, 23,
     9, -5, 5, -22, -16, -11,
     -22, -11, -20, 11, -2, 14,
     11, 8, 16, -24, 18, -14,
     17, 1, -6, 12, 7, 18,
     4, 8, 7, -19, 4, 18,
     -10, -1, -19, 19, -23, -23,
     -1, 23, 1, 5, 13, -24,
     -16, 14, -19, -19, 21, -22,
     -9, -23, -9, 5, 16, 3,
     12, 21, 13, 11, 15, 23,
     -21, 23, -21, -12, -24, -17,
     -14, -8, -5, -21, 13, -1,
     17, 24, 10, 19, -4, 6,
     21, -24, 13, -22, -2, -8,
     23, -16, 21, -6, -5, -15,
     -12, 14, -11, -8, -6, 5,
     -5, 9, 16, 9, -23, 24,
     12, -24, 22, 8, 19, 2,
     -10, 0, 18, 23, 3, -22,
     -19, 3, -12, -20, 15, 6,
     -23, 19, -23, 5, -3, 23,
     24, 8, 4, 10, 24, -3,
     8, 15, 7, -23, -2, 20,
     19, 18, 23, 4, -24, 6,
     -9, -23, -6, 16, -2, 2,
     10, 7, 12, -1, 21, 7,
     -6, 2, 20, 16, 5, 6,
     11, 3, -4, -14, 9, -12,
     13, -17, 11, -22, 23, 15,
     11, 1, 17, 22, 4, -3,
     18, -9, 21, 11, -14, -23,
     -9, 14, -14, -3, 14, 4,
     12, -4, 21, 0, -24, 16,
     -21, 6, -16, -15, -23, -20,
     14, -22, 0, -20, -13, 1,
     7, -12, 13, 0, -15, -11,
     16, 0, 10, 17, -1, 21,
     14, 2, -9, -18, 24, -5,
     -12, 23, -10, -6, 8, 9,
     16, 0, -14, 24, -10, -16,
     -21, -14, -23, 12, -21, 13,
     -21, 21, -21, -24, 2, -15,
     1, 19, 13, 8, 8, -23,
     -8, 6, 17, -19, -24, 7,
     -24, 18, -21, 10, 20, -24,
     3, 11, -4, 0, 22, -12,
     8, 5, 18, -3, 17, 10,
     -21, 18, -21, 18, -22, -6,
     -9, 2, -5, 24, -17, 4,
     2, 6, 5, 5, -24, 21,
     20, -24, 5, -17, 16, -3,
     -10, -2, 5, 5, -22, -9,
     -3, -13, -21, -12, 4, 23,
     6, 8, 3, 24, 13, -8,
     5, 19, 11, -6, 10, 22,
     -18, 17, -18, -10, -18, 10,
     20, 21, 21, 17, -3, 18,
     -23, 15, -19, 2, -21, -10,
     -16, 22, -18, -18, 2, 22,
     2, 0, 5, 19, -8, 7,
     5, -21, 4, 4, -14, 2,
     -16, 1, 18, 19, 15, 4,
     -15, -2, -20, -6, -18, -8,
     -19, -7, 0, -21, 10, -23,
     -15, 1, -16, 22, 7, 0,
     20, 12, 22, -12, 18, 1,
     23, 14, 13, -2, 23, -2,
     5, 16, 3, -1, -7, 9,
     -11, 11, -13, -11, -20, -23,
     -22, 9, -20, 2, -23, -3,
     2, -1, 17, 3, 24, 19,
     -11, 1, -24, 3, 20, 20,
     -15, -8, -20, 12, -14, -11,
     20, -8, 19, -14, -14, 9,
     -24, 15, -8, -22, 9, -4,
     22, 0, 0, -7, 24, -3,
     19, -17, 23, -17, 1, 11,
     -24, 3, -16, -18, 15, -7,
     10, -10, 9, 0, 23, 4,
     9, 2, 15, 9, -20, -23,
     16, 11, 7, -19, 8, 23,
     17, -14, 21, -17, -18, -14,
     -10, 11, -10, -24, 2, 13,
     24, 7, -2, 15, -3, 11,
     -20, 18, -9, 21, 4, -7,
     -5, -18, -23, 10, -6, 11,
     9, 0, 13, -1, -24, -12,
     17, 10, 1, -1, -23, 15,
     24, -8, 24, -2, -4, 14,
     -18, 0, 18, 6, -24, -23,
     16, -19, 11, -9, -18, -1,
     -24, -5, -23, -3, 22, 15,
     -23, 0, -19, -15, 9, 12,
     3, -11, 3, -10, 22, -21,
     -3, -21, -14, -15, -20, 19,
     22, 8, 1, -21, -11, 23,
     -9, -4, -10, -17, -9, -2,
     15, 20, 9, 20, -24, 3,
     -16, 19, -19, -16, 0, -21,
     17, 12, 8, 9, -12, 11,
     19, -23, 12, 12, 2, 0,
     24, -11, 24, -16, -22, -19,
     18, 1, -7, -2, 5, -23,
     10, 23, 2, -21, 1, -10,
     15, -24, 16, -11, 4, 1,
     16, -20, 14, -13, -6, 13,
     12, 15, 10, 6, -12, -20,
     -23, 13, -18, -5, 21, 1,
     -19, -7, -23, -1, -21, -15,
     -21, -9, -18, -8, -7, -15,
     0, 18, -2, -17, -12, 10,
     -22, -2, 19, 21, -14, 22,
     24, 6, 18, 1, 21, -19,
     14, -14, 15, 12, 3, 17,
     -14, -3, 4, -13, 5, 12,
     12, 22, 24, -11, -9, -23,
     0, 11, 11, 9, -20, 1,
     12, 12, 18, 16, -4, 9,
     19, -2, -23, -17, 11, 22,
     15, 13, 22, -4, 17, -3,
     -9, 11, -13, -2, -14, -5,
     5, -12, 14, -4, 18, -12,
     21, 2, -19, 8, -23, 8,
     -10, 0, 8, -17, 12, 19,
     18, 2, 10, -18, -21, 13,
     13, -3, 19, 4, -19, 1,
     -21, 8, -24, -10, -1, -23,
     18, 9, 9, 9, 20, 3,
     -11, 18, -5, -24, -23, 3,
     -15, 17, -19, -13, 12, 19,
     13, 3, 13, -14, -15, -23,
     10, -23, 16, -10, -2, 16,
     -14, -23, -6, -21, 19, -6,
     -5, -14, -2, 21, -8, 11,
     13, 16, 15, 6, -24, 14,
     -21, -8, -1, -21, 1, 14,
     19, 14, 9, -19, 5, 21,
     8, -18, 17, -6, 12, 1,
     -19, 14, -21, -11, -13, 23,
     12, -3, 9, -18, -17, -14,
     12, 21, 19, 16, -11, 19,
     -23, -3, 14, 22, -24, 20,
     -7, 13, -18, -5, -18, -23,
     -22, -9, -10, -15, -18, 16,
     -5, -12, -4, 18, 10, -16,
     9, -15, 17, -10, 6, 16,
     16, -1, -20, -6, -7, -20,
     -24, -18, -13, -1, 8, -2,
     16, 6, 18, -22, 11, -12,
     4, -15, 1, 16, -20, 6,
     17, 2, 21, 23, 15, -4,
     21, -24, 13, 3, 21, 8,
     -4, 4, -12, -1, 19, -7,
     11, 5, -2, -12, -21, -13,
     -19, -11, -20, 20, -2, -24,
     11, -1, -3, 20, -4, -23,
     11, -1, 14, 2, 7, -2,
     -16, -1, -17, 23, -8, -14,
     21, 6, 10, -15, 19, -24,
     15, 12, 1, -23, -6, 11,
     -19, 19, -18, 17, 0, -8,
     0 >>
NumFragments == 64
BitsPerFragment == 8
TripletFloats == 6

---------------------------------------------------------------------------
(* Keypoints and the border filter                                         *)

\* struct KeyPoint: x, y and scale in quarter units, angle in quarter turns
KeyPoint(x, y, scale, angle) == [x |-> x, y |-> y, scale |-> scale, angle |-> angle]

Margin == 36

\* a predicate that keeps the keypoints lying exactly on the margin
RemovedStrict(kp, w, h) ==
  \/ kp.x < Margin * Q
  \/ kp.y < Margin * Q
  \/ kp.x > (w - Margin) * Q
  \/ kp.y > (h - Margin) * Q
\* the lambda handed to std::remove_if
Removed(kp, w, h) ==
  \/ kp.x <= Margin * Q
  \/ kp.y <= Margin * Q
  \/ kp.x >= (w - Margin) * Q
  \/ kp.y >= (h - Margin) * Q

\* std::remove_if: one forward pass from `first` that moves every element
\* the predicate rejects to the next free place at the front; the value is
\* the compacted front, up to the iterator remove_if returns.
RECURSIVE RemoveIf(_, _, _, _)
RemoveIf(store, first, w, h) ==
  IF first > Len(store) THEN << >>
  ELSE IF Removed(store[first], w, h)
       THEN RemoveIf(store, first + 1, w, h)
       ELSE << store[first] >> \o RemoveIf(store, first + 1, w, h)

\* keypoints.erase(remove_if(...), keypoints.end()) cuts the vector at the
\* returned iterator
BorderFilter(kps, w, h) == RemoveIf(kps, 1, w, h)

---------------------------------------------------------------------------
(* The image                                                               *)

\* The byte at (row, col) of the picture named by img.  "const" is a flat
\* picture; "vsplit" is dark left of column `edge` and bright right of it.
Pixel(img, row, col) ==
  CASE img.kind = "const"  -> img.lo
    [] img.kind = "vsplit" -> IF col < img.edge THEN img.lo ELSE img.hi

InImage(row, col, w, h) == 0 <= row /\ row < h /\ 0 <= col /\ col < w

\* image[stride*row + col]: a byte of the picture inside the declared
\* width x height, and whatever the memory holds outside of it
Load(img, jk, row, col, w, h) ==
  IF InImage(row, col, w, h) THEN Pixel(img, row, col) ELSE jk

---------------------------------------------------------------------------
(* One triplet of _LATCH                                                   *)

Cos(angle) == CASE angle = 0 -> 1 [] angle = 1 -> 0 [] angle = 2 -> -1 [] angle = 3 -> 0
Sin(angle) == CASE angle = 0 -> 0 [] angle = 1 -> 1 [] angle = 2 -> 0 [] angle = 3 -> -1

\* _mm_div_ps(pt.scale, 7.0f), in quarter units
ScaleFactor(pt) == pt.scale \div 7

ClampHi == 32
Clamp(v) == Min(Max(v, -ClampHi * Q), ClampHi * Q)

\* the float at triplet[k]; tp is the number of floats before `triplet`
TripletAt(tp, k) == triplets[tp + k + 1]

\* xints / yints, lanes 0..2 (A, B, C): triplet[0..2] are the three x
\* offsets, triplet[3..5] the three y offsets
XInt(pt, tp, lane) ==
  LET xs == TripletAt(tp, lane) * ScaleFactor(pt)
      ys == TripletAt(tp, 3 + lane) * ScaleFactor(pt)
  IN  Cvt(Clamp(xs * Cos(pt.angle) - ys * Sin(pt.angle)) + pt.x)
YInt(pt, tp, lane) ==
  LET xs == TripletAt(tp, lane) * ScaleFactor(pt)
      ys == TripletAt(tp, 3 + lane) * ScaleFactor(pt)
  IN  Cvt(Clamp(xs * Sin(pt.angle) + ys * Cos(pt.angle)) + pt.y)

\* the rounded centers of A, B and C: lane -> << row, column >>
Centers(pt, tp) == [lane \in 0..2 |-> << YInt(pt, tp, lane), XInt(pt, tp, lane) >>]

PatchRows == -3..4
PatchCols == -3..4

\* the 3 x 8 x 8 pixels the patchy loop loads and uses for one triplet
Window(ctr) ==
  { << ctr[lane][1] + py, ctr[lane][2] + px >> :
      lane \in 0..2, py \in PatchRows, px \in PatchCols }

RECURSIVE SumSeq(_)
SumSeq(s) == IF s = << >> THEN 0 ELSE Head(s) + SumSeq(Tail(s))

\* _mm_mullo_epi32(d, d)
Square(d) == Wrap32(d * d)

\* the contribution of one patch row to lane l (0..3) of `accum`; im_a, im_b
\* and im_c start three columns left of the centers, the first load of a
\* row feeds columns 0..3 and the second columns 4..7
RowLane(img, jk, w, h, ctr, py, l) ==
  LET a(col) == Load(img, jk, ctr[0][1] + py, ctr[0][2] - 3 + col, w, h)
      b(col) == Load(img, jk, ctr[1][1] + py, ctr[1][2] - 3 + col, w, h)
      c(col) == Load(img, jk, ctr[2][1] + py, ctr[2][2] - 3 + col, w, h)
  IN  Wrap32(Wrap32(Square(Wrap32(a(l) - b(l))) + Square(Wrap32(a(l + 4) - b(l + 4))))
             - Wrap32(Square(Wrap32(c(l) - b(l))) + Square(Wrap32(c(l + 4) - b(l + 4)))))

\* lane l of `accum` after the rows py..4
RECURSIVE AccumLane(_, _, _, _, _, _, _)
AccumLane(img, jk, w, h, ctr, py, l) ==
  IF py > 4 THEN 0
  ELSE Wrap32(RowLane(img, jk, w, h, ctr, py, l)
              + AccumLane(img, jk, w, h, ctr, py + 1, l))

\* _mm_hadd_epi32(accum, accum), then extract 0 + extract 1
TripletSum(img, jk, w, h, ctr) ==
  LET lane(l) == AccumLane(img, jk, w, h, ctr, -3, l)
  IN  Wrap32(Wrap32(lane(0) + lane(1)) + Wrap32(lane(2) + lane(3)))

\* a shift that puts triplet-in-byte index 0 in the most significant bit
ShiftedSignMsbFirst(v, b) == SignBit(v) * Pow2(7 - b)
\* ((v & 0x80000000) >> (31 - bit)), as a byte
ShiftedSign(v, b) == SignBit(v) * Pow2(b)

\* bitwise OR of two bytes
ByteOr(a, m) ==
  SumSeq([b \in 1..8 |-> IF BitOf(a, b - 1) = 1 \/ BitOf(m, b - 1) = 1
                         THEN Pow2(b - 1) ELSE 0])

---------------------------------------------------------------------------
(* LATCH: filter, branch, launch, join                                     *)

\* keypoints.erase(remove_if(...)); const int sz = keypoints.size();
Filter ==
  /\ pc = "filter"
  /\ keypoints' = BorderFilter(keypoints, width, height)
  /\ sz' = Len(keypoints')
  /\ pc' = "branch"
  /\ UNCHANGED << inputVars, hw_concur, thread_stride, i, start, j, calls,
                  descriptors, pixelReads, ub, kernelVars >>

\* sz >> 4 divides by 16
KeypointsPerWorker == 16

\* a worker count taken from sz >> 3
HwConcurEighth(n, h) == Min(n \div (KeypointsPerWorker \div 2), h)
\* std::min(sz >> 4, static_cast<int32_t>(hardware_concurrency()))
HwConcur(n, h) == Min(n \div KeypointsPerWorker, h)

\* (sz - 1) / hw_concur + 1
ThreadStride(n, w) == (n - 1) \div w + 1

\* a loop increment that leaves one index between two chunks
NextStartGap(s, stride) == s + stride + 1
\* start += thread_stride
NextStart(s, stride) == s + stride

\* a final chunk that stops one index early
LastLenShort(n, s) == n - s - 1
\* the length handed to the final worker: sz - start
LastLen(n, s) == n - s

\* the record of one invocation _LATCH(start, thread_stride, ...): idx is its
\* loop variable i, pt its local copy of keypoints[i], st its position
\* (ready: at the loop test, busy: inside the body, done: returned)
NoKeypoint == KeyPoint(0, 0, 0, 0)
Call(s, len, async) ==
  [start |-> s, len |-> len, idx |-> s, st |-> "ready", async |-> async,
   pt |-> NoKeypoint]

\* if (multithread) { hw_concur = ...; if (hw_concur > 1) { fut(hw_concur);
\* thread_stride = ...; int i = 0, start = 0;
Branch ==
  /\ pc = "branch"
  /\ IF multithread
     THEN /\ hw_concur' = HwConcur(sz, hardware)
          /\ IF hw_concur' > 1
             THEN /\ thread_stride' = ThreadStride(sz, hw_concur')
                  /\ i' = 0
                  /\ start' = 0
                  /\ pc' = "launch"
             ELSE /\ pc' = "inline"
                  /\ UNCHANGED << thread_stride, i, start >>
     ELSE /\ pc' = "inline"
          /\ UNCHANGED << hw_concur, thread_stride, i, start >>
  /\ UNCHANGED << inputVars, keypoints, sz, j, calls, descriptors,
                  pixelReads, ub, kernelVars >>

\* one iteration of: for (; i < min(sz - 1, hw_concur - 1); ++i, start += ...)
\*                     fut[i] = std::async(launch::async, _LATCH, start, thread_stride, ...)
Launch ==
  /\ pc = "launch"
  /\ i < Min(sz - 1, hw_concur - 1)
  /\ calls' = Append(calls, Call(start, thread_stride, TRUE))
  /\ i' = i + 1
  /\ start' = NextStart(start, thread_stride)
  /\ UNCHANGED << inputVars, keypoints, pc, sz, hw_concur, thread_stride, j,
                  descriptors, pixelReads, ub, kernelVars >>

\* fut[i] = std::async(launch::async, _LATCH, start, sz - start, ...)
LaunchLast ==
  /\ pc = "launch"
  /\ ~ (i < Min(sz - 1, hw_concur - 1))
  /\ calls' = Append(calls, Call(start, LastLen(sz, start), TRUE))
  /\ j' = 0
  /\ pc' = "wait"
  /\ UNCHANGED << inputVars, keypoints, sz, hw_concur, thread_stride, i,
                  start, descriptors, pixelReads, ub, kernelVars >>

\* a wait that does not block
WaitReadyNever(c) == TRUE
\* fut[j].wait() returns once the call has returned
WaitReady(c) == c.st = "done"

\* one iteration of: for (int j = 0; j <= i; ++j) fut[j].wait();
Wait ==
  /\ pc = "wait"
  /\ j <= i
  /\ WaitReady(calls[j + 1])
  /\ j' = j + 1
  /\ UNCHANGED << inputVars, keypoints, pc, sz, hw_concur, thread_stride, i,
                  start, calls, descriptors, pixelReads, ub, kernelVars >>

\* the wait loop is over; LATCH returns
Return ==
  /\ pc = "wait"
  /\ j > i
  /\ pc' = "done"
  /\ UNCHANGED << inputVars, keypoints, sz, hw_concur, thread_stride, i,
                  start, j, calls, descriptors, pixelReads, ub, kernelVars >>

\* _LATCH(0, sz, ...) called on the thread of LATCH itself
CallInline ==
  /\ pc = "inline"
  /\ calls' = << Call(0, sz, FALSE) >>
  /\ pc' = "running"
  /\ UNCHANGED << inputVars, keypoints, sz, hw_concur, thread_stride, i,
                  start, j, descriptors, pixelReads, ub, kernelVars >>

\* the inline call has returned, and so does LATCH
InlineReturn ==
  /\ pc = "running"
  /\ calls[1].st = "done"
  /\ pc' = "done"
  /\ UNCHANGED << inputVars, keypoints, sz, hw_concur, thread_stride, i,
                  start, j, calls, descriptors, pixelReads, ub, kernelVars >>

---------------------------------------------------------------------------
(* _LATCH: the worker loop                                                 *)

\* a loop test that admits one index too many
LoopContinuesInclusive(idx, s, len) == idx <= s + len
\* for (int i = start; i < start + thread_stride; ++i)
LoopContinues(idx, s, len) == idx < s + len

\* the indices one invocation _LATCH(s, len) visits
Visited(s, len) == { idx \in s..(s + len) : LoopContinues(idx, s, len) }

JunkKeypoint == KeyPoint(-1, -1, -1, 0)

\* const KeyPoint pt = keypoints[i]: the element when i is inside the
\* vector; otherwise anything the storage behind the vector may hold
KeypointRead(kps, in, idx) ==
  IF 0 <= idx /\ idx < Len(kps) THEN { kps[idx + 1] }
  ELSE { in[k] : k \in 1..Len(in) } \cup { JunkKeypoint }

\* a store into slot idx of the output array, when the array has the slot
WriteSlot(desc, idx, v) ==
  IF idx \in DOMAIN desc THEN [desc EXCEPT ![idx] = v] ELSE desc

LeavesMemory(kps, desc, idx) == ~ (0 <= idx /\ idx < Len(kps)) \/ idx \notin DOMAIN desc

\* The content of one output slot in the dispatch model: junk as the caller
\* left it, partial while a worker is between desc[0] = 0 and the last bit,
\* full when it holds the descriptor of keypoint `of`.
Slot(st, pt) == [st |-> st, of |-> pt]

\* loop test passed; pt is copied and the first bytes of the slot are written
WorkerBegin(k) ==
  /\ k \in 1..Len(calls)
  /\ calls[k].st = "ready"
  /\ LoopContinues(calls[k].idx, calls[k].start, calls[k].len)
  /\ \E pt \in KeypointRead(keypoints, input, calls[k].idx) :
       /\ calls' = [calls EXCEPT ![k].st = "busy", ![k].pt = pt]
       /\ descriptors' = WriteSlot(descriptors, calls[k].idx, Slot("partial", pt))
  /\ pixelReads' = TRUE
  /\ ub' = (ub \/ LeavesMemory(keypoints, descriptors, calls[k].idx))
  /\ UNCHANGED << inputVars, keypoints, pc, dispatchVars, kernelVars >>

\* the 512th bit is stored; ++i
WorkerFinish(k) ==
  /\ k \in 1..Len(calls)
  /\ calls[k].st = "busy"
  /\ descriptors' = WriteSlot(descriptors, calls[k].idx, Slot("full", calls[k].pt))
  /\ calls' = [calls EXCEPT ![k].st = "ready", ![k].idx = calls[k].idx + 1]
  /\ UNCHANGED << inputVars, keypoints, pc, dispatchVars, pixelReads, ub,
                  kernelVars >>

\* loop test failed; _LATCH returns
WorkerExit(k) ==
  /\ k \in 1..Len(calls)
  /\ calls[k].st = "ready"
  /\ ~ LoopContinues(calls[k].idx, calls[k].start, calls[k].len)
  /\ calls' = [calls EXCEPT ![k].st = "done"]
  /\ UNCHANGED << inputVars, keypoints, pc, dispatchVars, descriptors,
                  pixelReads, ub, kernelVars >>

\* One pass of the body of the `bit` loop of the inline call, with the loop
\* bookkeeping around it: pt is copied at the first triplet of a keypoint,
\* desc[fragment] = 0 precedes bit 0, and ++i follows the 512th triplet.
EvalTriplet ==
  /\ pc = "running"
  /\ calls[1].st = "ready"
  /\ LoopContinues(calls[1].idx, calls[1].start, calls[1].len)
  /\ \E pt \in (IF fragment = 0 /\ bit = 0
                THEN KeypointRead(keypoints, input, calls[1].idx)
                ELSE { calls[1].pt }) :
     \E ctr \in { Centers(pt, (fragment * BitsPerFragment + bit) * TripletFloats) } :
     \E s \in { TripletSum(image, junk, width, height, ctr) } :
       LET idx  == calls[1].idx
           old  == IF bit = 0 \/ idx \notin DOMAIN descriptors THEN 0
                   ELSE descriptors[idx][fragment]
           last == fragment = NumFragments - 1 /\ bit = BitsPerFragment - 1
       IN  /\ accum' = s
           /\ results' = IF fragment = 0 /\ bit = 0 THEN << SignBit(s) >>
                         ELSE Append(results, SignBit(s))
           /\ descriptors' =
                IF idx \in DOMAIN descriptors
                THEN [descriptors EXCEPT ![idx][fragment] = ByteOr(old, ShiftedSign(s, bit))]
                ELSE descriptors
           /\ outside' = outside \cup
                { p \in Window(ctr) : ~ InImage(p[1], p[2], width, height) }
           /\ calls' = [calls EXCEPT ![1].pt = pt,
                                     ![1].idx = IF last THEN idx + 1 ELSE idx]
           /\ bit' = (bit + 1) % BitsPerFragment
           /\ fragment' = IF bit = BitsPerFragment - 1
                          THEN (fragment + 1) % NumFragments ELSE fragment
  /\ pixelReads' = TRUE
  /\ ub' = (ub \/ LeavesMemory(keypoints, descriptors, calls[1].idx))
  /\ UNCHANGED << inputVars, keypoints, pc, dispatchVars >>

---------------------------------------------------------------------------
(* Bounds and inputs                                                       *)

MaxLen == 3            \* longest keypoint list handed to the filter model
FilterSize == 100      \* image width and height of the filter model
KernelSize == 80       \* image width and height of the kernel model
MaxCount == 1000       \* largest filtered keypoint count of the partition model
MaxCores == 19         \* largest hardware_concurrency() of the partition model
MaxKeypoints == 48     \* longest keypoint list of the fork-join model
MaxHardware == 3       \* largest hardware_concurrency() of the fork-join model
ImageSize == 200       \* image width and height of the fork-join model

FlatImage == [kind |-> "const", lo |-> 200, hi |-> 200, edge |-> 0]

\* every sequence over S of length at most n
RECURSIVE SeqsUpTo(_, _)
SeqsUpTo(S, n) ==
  IF n = 0 THEN { << >> }
  ELSE LET shorter == SeqsUpTo(S, n - 1)
       IN  shorter \cup { Append(s, e) : s \in { t \in shorter : Len(t) = n - 1 }, e \in S }

\* the state every call of LATCH starts from, given its arguments
Entry(w, h, img, jk, in, mt, hw, desc) ==
  /\ width = w /\ height = h /\ image = img /\ junk = jk
  /\ input = in /\ multithread = mt /\ hardware = hw
  /\ keypoints = in
  /\ pc = "filter"
  /\ sz = 0 /\ hw_concur = 0 /\ thread_stride = 0 /\ i = 0 /\ start = 0 /\ j = 0
  /\ calls = << >>
  /\ descriptors = desc
  /\ pixelReads = FALSE /\ ub = FALSE
  /\ fragment = 0 /\ bit = 0 /\ accum = 0 /\ results = << >>
  /\ outside = {}

(* The filter model: short lists of keypoints on and next to the margins.  *)
FilterKeypoints(w, h) ==
  { KeyPoint(x, y, 28, 0) :
      x \in { Margin * Q, Margin * Q + 1, (Margin + 1) * Q,
              (w - Margin) * Q - 1, (w - Margin) * Q },
      y \in { (Margin + 1) * Q, (h - Margin) * Q } }

InitFilter ==
  \E w \in { 2 * Margin, FilterSize } :
  \E in \in SeqsUpTo(FilterKeypoints(w, FilterSize), MaxLen) :
    Entry(w, FilterSize, FlatImage, 0, in, FALSE, 1,
          [s \in 0..(Len(in) - 1) |-> Slot("junk", NoKeypoint)])

NextFilter == Filter

SpecFilter == InitFilter /\ [][NextFilter]_vars

(* The kernel model: LATCH<false> on one keypoint, every triplet evaluated *)
(* on real pixels.                                                         *)
KernelImages ==
  { FlatImage,
    [kind |-> "vsplit", lo |-> 0, hi |-> 255, edge |-> KernelSize \div 2] }

\* scale 7 turned by a quarter turn, and scale 14 unturned
KernelPoses == { << 28, 1 >>, << 56, 0 >> }

KernelKeypoints ==
  { KeyPoint(x, (KernelSize \div 2) * Q, pose[1], pose[2]) :
      x \in { Margin * Q, (KernelSize \div 2) * Q, (KernelSize - Margin) * Q - 1 },
      pose \in KernelPoses }

InitKernel ==
  \E img \in KernelImages, jk \in { 0, 255 } :
  \E in \in { << >> } \cup { << kp >> : kp \in KernelKeypoints } :
    Entry(KernelSize, KernelSize, img, jk, in, FALSE, 1,
          [s \in 0..(Len(in) - 1) |-> [f \in 0..(NumFragments - 1) |-> jk]])

NextKernel ==
  \/ Filter
  \/ Branch
  \/ CallInline
  \/ EvalTriplet
  \/ WorkerExit(1)
  \/ InlineReturn

SpecKernel == InitKernel /\ [][NextKernel]_vars

(* The partition model: LATCH from `if (multithread)` up to the last       *)
(* launch, for every filtered count and core count; the vector is          *)
(* represented by its size sz alone and no _LATCH body runs.               *)
InitPartition ==
  \E n \in 0..MaxCount, hw \in 0..MaxCores, mt \in BOOLEAN :
    /\ width = ImageSize /\ height = ImageSize /\ image = FlatImage /\ junk = 0
    /\ input = << >> /\ multithread = mt /\ hardware = hw
    /\ keypoints = << >>
    /\ pc = "branch"
    /\ sz = n
    /\ hw_concur = 0 /\ thread_stride = 0 /\ i = 0 /\ start = 0 /\ j = 0
    /\ calls = << >>
    /\ descriptors = << >>
    /\ pixelReads = FALSE /\ ub = FALSE
    /\ fragment = 0 /\ bit = 0 /\ accum = 0 /\ results = << >>
    /\ outside = {}

NextPartition ==
  \/ Branch
  \/ Launch
  \/ LaunchLast
  \/ CallInline

SpecPartition == InitPartition /\ [][NextPartition]_vars

(* The fork-join model: the whole call, workers interleaved keypoint by    *)
(* keypoint.                                                               *)

\* n keypoints with distinct x; in the "mixed" layout every third one lies
\* exactly on the left margin
MakeInput(n, layout) ==
  [k \in 1..n |->
     IF layout = "mixed" /\ k % 3 = 0
     THEN KeyPoint(Margin * Q, (Margin + 1) * Q + k, 28, 0)
     ELSE KeyPoint((Margin + 1) * Q + k, (Margin + 1) * Q, 28, 0)]

Init ==
  \E mt \in BOOLEAN, hw \in 0..MaxHardware :
  \E arg \in { << ImageSize, MakeInput(n, layout) >> :
                 n \in 0..MaxKeypoints, layout \in { "inside", "mixed" } }
             \cup { << 2 * Margin, MakeInput(n, "inside") >> : n \in 1..2 } :
    Entry(arg[1], ImageSize, FlatImage, 0, arg[2], mt, hw,
          [s \in 0..(Len(arg[2]) - 1) |-> Slot("junk", NoKeypoint)])

Next ==
  \/ Filter
  \/ Branch
  \/ Launch
  \/ LaunchLast
  \/ Wait
  \/ Return
  \/ CallInline
  \/ InlineReturn
  \/ \E k \in 1..MaxHardware : WorkerBegin(k)
  \/ \E k \in 1..MaxHardware : WorkerFinish(k)
  \/ \E k \in 1..MaxHardware : WorkerExit(k)

Spec == Init /\ [][Next]_vars

Fairness ==
  /\ WF_vars(Filter \/ Branch \/ Launch \/ LaunchLast \/ Wait \/ Return
             \/ CallInline \/ InlineReturn)
  /\ \A k \in 1..MaxHardware :
       WF_vars(WorkerBegin(k) \/ WorkerFinish(k) \/ WorkerExit(k))

FairSpec == Spec /\ Fairness

---------------------------------------------------------------------------
(* Properties of the partition (SpecPartition)                             *)

\* _LATCH(c.start, c.len) executes its body for index idx
Visits(c, idx) == c.start <= idx /\ LoopContinues(idx, c.start, c.len)

\* every _LATCH invocation of the call has been issued
AllIssued == pc \in { "wait", "running" }

\* C1: in multi-threaded LATCH with more than one worker, every chunk handed
\* to a worker has start >= 0, length >= 0 and start + length <= sz, the
\* chunks do not overlap, and no worker visits an index >= sz.
C1ChunksInsideRange ==
  \A k \in 1..Len(calls) :
    calls[k].async =>
      /\ 0 <= calls[k].start
      /\ calls[k].len >= 0
      /\ calls[k].start + calls[k].len <= sz
      /\ Visited(calls[k].start, calls[k].len) \subseteq 0..(sz - 1)
      /\ \A m \in 1..(k - 1) :
           calls[m].start + calls[m].len <= calls[k].start

\* C2: once LATCH has issued its _LATCH invocations, single- or
\* multi-threaded, every index of [0, sz) is visited by exactly one of them.
C2EveryIndexOnce ==
  AllIssued =>
    \A idx \in 0..(sz - 1) :
      Cardinality({ k \in 1..Len(calls) : Visits(calls[k], idx) }) = 1

C2Witness ==
  /\ pc = "wait"
  /\ sz = MaxCount
  /\ hw_concur > 2
  /\ Len(calls) = hw_concur
  /\ calls[Len(calls)].len > 0
  /\ calls[Len(calls)].len < thread_stride

\* C7 as stated: with fewer than 16 keypoints per available core,
\* multi-threaded LATCH takes the single-threaded path and launches nothing.
C7FewerThan16PerCore ==
  (multithread /\ sz < KeypointsPerWorker * hardware) =>
    /\ pc \notin { "launch", "wait" }
    /\ \A k \in 1..Len(calls) : ~ calls[k].async

\* C7 as amended: multi-threaded LATCH takes the single-threaded path and
\* launches nothing exactly when there are fewer than 32 keypoints (16 for
\* each of two workers) or at most one core; otherwise it launches workers,
\* also when there are fewer than 16 keypoints per core.
C7FallsBackBelowTwoWorkers ==
  (multithread /\ pc # "branch") =>
    ( (sz < 2 * KeypointsPerWorker \/ hardware <= 1)
        <=> ( /\ pc \in { "inline", "running" }
              /\ \A k \in 1..Len(calls) : ~ calls[k].async ) )

C7Witness ==
  /\ multithread
  /\ pc = "running"
  /\ sz = 2 * KeypointsPerWorker - 1
  /\ hardware = MaxCores
  /\ calls = << Call(0, sz, FALSE) >>

---------------------------------------------------------------------------
(* Properties of the filter (SpecFilter)                                   *)

\* strictly inside the margins on all four sides
Interior(kp) ==
  /\ Margin * Q < kp.x /\ kp.x < (width - Margin) * Q
  /\ Margin * Q < kp.y /\ kp.y < (height - Margin) * Q

---------------------------------------------------------------------------
(* Properties of the kernel (SpecKernel)                                   *)

\* the table index of the triplet evaluated last, and the keypoint, output
\* slot and byte it belongs to
LastTriplet == Len(results) - 1
LastSlot == IF Len(results) = NumFragments * BitsPerFragment
            THEN calls[1].idx - 1 ELSE calls[1].idx

\* the sum of (A-B)^2 - (C-B)^2 over the 8 x 8 window, in unbounded integers
RECURSIVE ExactSum(_, _, _, _, _, _)
ExactSum(img, jk, w, h, ctr, n) ==
  IF n = 64 THEN 0
  ELSE LET py == (n \div 8) - 3
           px == (n % 8) - 3
           a  == Load(img, jk, ctr[0][1] + py, ctr[0][2] + px, w, h)
           b  == Load(img, jk, ctr[1][1] + py, ctr[1][2] + px, w, h)
           c  == Load(img, jk, ctr[2][1] + py, ctr[2][2] + px, w, h)
       IN  (a - b) * (a - b) - (c - b) * (c - b)
           + ExactSum(img, jk, w, h, ctr, n + 1)

\* C4: every pixel of the three 8 x 8 windows of every triplet evaluated for
\* a keypoint the filter retained lies inside the declared image.
C4WindowsInsideImage == outside = {}

\* C5 as stated: the result for triplet f*8+b is stored in bit 7-b of byte f.
C5MostSignificantFirst ==
  \A t \in 0..LastTriplet :
    BitOf(descriptors[LastSlot][t \div BitsPerFragment],
          7 - (t % BitsPerFragment)) = results[t + 1]

\* C5 as amended: the result for triplet f*8+b is stored in bit b of byte f
\* (triplet-in-byte index 0 in the least significant bit, index 7 in bit 7),
\* and the bits of byte f above the last stored one are 0.
C5LeastSignificantFirst ==
  \A t \in 0..(NumFragments * BitsPerFragment - 1) :
    (t \div BitsPerFragment) * BitsPerFragment <= LastTriplet =>
      BitOf(descriptors[LastSlot][t \div BitsPerFragment], t % BitsPerFragment)
        = IF t <= LastTriplet THEN results[t + 1] ELSE 0

C5Witness ==
  /\ Len(results) = NumFragments * BitsPerFragment
  /\ results[1] = 1 /\ results[8] = 0
  /\ BitOf(descriptors[LastSlot][0], 0) = 1
  /\ BitOf(descriptors[LastSlot][0], 7) = 0

---------------------------------------------------------------------------
(* Properties of the fork-join call (Spec, FairSpec)                       *)

\* the output array as the caller handed it in
Untouched == [s \in DOMAIN descriptors |-> Slot("junk", NoKeypoint)]

\* what LATCH<false> leaves in the output array for the filtered vector:
\* _LATCH(0, sz) alone stores the descriptor of keypoints[s] in every slot s
\* it visits
SingleThreaded ==
  [s \in DOMAIN descriptors |->
     IF Visits(Call(0, sz, FALSE), s)
     THEN Slot("full", CHOOSE pt \in KeypointRead(keypoints, input, s) : TRUE)
     ELSE Untouched[s]]

\* C3: when LATCH returns, in either threading mode, for every core count
\* and every interleaving, each slot of a post-filter index holds what
\* LATCH<false> leaves there.
C3SameAsSingleThreaded ==
  pc = "done" =>
    \A idx \in 0..(sz - 1) : descriptors[idx] = SingleThreaded[idx]

C3Witness ==
  /\ pc = "done"
  /\ multithread
  /\ hw_concur = MaxHardware
  /\ Len(calls) = MaxHardware
  /\ sz = KeypointsPerWorker * MaxHardware
  /\ descriptors[sz - 1] = Slot("full", keypoints[sz])

\* C9: with more than one worker, LATCH has launched exactly hw_concur
\* workers by the time it waits, it returns only when every worker has
\* returned and every slot of [0, sz) is fully written, and under fair
\* scheduling it always returns.
C9JoinBarrier ==
  /\ [](hw_concur > 1 /\ pc \in { "wait", "done" } =>
          /\ Len(calls) = hw_concur
          /\ \A k \in 1..Len(calls) : calls[k].async)
  /\ [](hw_concur > 1 /\ pc = "done" =>
          /\ \A k \in 1..Len(calls) : calls[k].st = "done"
          /\ \A idx \in 0..(sz - 1) : descriptors[idx].st = "full")
  /\ <>(pc = "done")

C9Witness ==
  /\ pc = "done"
  /\ hw_concur = MaxHardware
  /\ Len(calls) = MaxHardware
  /\ \A k \in 1..Len(calls) : calls[k].st = "done" /\ calls[k].len > 0

\* C10: when no keypoint survives the filter, LATCH in either mode launches
\* no worker, loads no image byte and leaves the output array as it was.
C10NothingSurvives ==
  (pc # "filter" /\ sz = 0) =>
    /\ \A k \in 1..Len(calls) : ~ calls[k].async /\ calls[k].idx = 0
    /\ pixelReads = FALSE
    /\ descriptors = Untouched

C10Witness ==
  /\ pc = "done"
  /\ multithread
  /\ hardware = MaxHardware
  /\ width = 2 * Margin
  /\ Len(input) = 2
  /\ sz = 0
  /\ calls = << [Call(0, 0, FALSE) EXCEPT !.st = "done"] >>

=============================================================================
